---- MODULE Spec2Model ----
(***************************************************************************)
(* Radio Metadata API: the ICY title extraction, the station monitor and   *)
(* its activation (src/old.py) and the on-demand recorder radio_info       *)
(* (src/app.py), over the SQLite tables both files declare.                *)
(*                                                                         *)
(* The repository holds two variants of the service.  A deployment runs    *)
(* one of them: `variant` is fixed by Init and selects whose handlers can  *)
(* run.  Text is modelled as a sequence of one-character strings.          *)
(***************************************************************************)
EXTENDS Integers, Sequences, FiniteSets, TLC

VARIABLES
    variant,           \* "old" (src/old.py) or "app" (src/app.py)
    phase,             \* "boot" before the startup event has run, then "up"
    now,               \* datetime.utcnow(): seconds in app.py; old.py compares no
                       \* durations, there it counts the instants rows were stamped
    radio_stations,    \* table radio_stations: sequence of rows (url unique)
    song_history,      \* table song_history: sequence of rows, insertion order
    last_played_song,  \* table last_played_song: set of rows, key radio_url
    tasks,             \* asyncio tasks of the event loop, in creation order
    reqs,              \* worker threads running app.py's get_radio_info
    response,          \* the last response a handler returned
    shot               \* the request of a one-shot endpoint (get_stream_title,
                       \* get_stream_details): its locals and its reply

vars == <<variant, phase, now, radio_stations, song_history, last_played_song,
          tasks, reqs, response, shot>>

-----------------------------------------------------------------------------
(* Bounds of the model. *)

MaxTasks == 2
MaxHistory == 3
MaxTime == 62
MaxReqs == 2
MaxScans == 1
MaxWord == 2

(* Program constants. *)

MIN_HISTORY_INTERVAL == 30
SONG_HISTORY_LIMIT == 5

-----------------------------------------------------------------------------
(* Text helpers: Python's str/bytes methods the code uses. *)

Needle == <<"S","t","r","e","a","m","T","i","t","l","e","=","'">>

\* bytes.find / str.find: the least index (from 1) where sub occurs, 0 if none
Find(s, sub) ==
    IF \E i \in 1..(Len(s) - Len(sub) + 1) : SubSeq(s, i, i + Len(sub) - 1) = sub
    THEN CHOOSE i \in 1..(Len(s) - Len(sub) + 1) :
            /\ SubSeq(s, i, i + Len(sub) - 1) = sub
            /\ \A j \in 1..(i - 1) : SubSeq(s, j, j + Len(sub) - 1) # sub
    ELSE 0

Contains(s, sub) == Find(s, sub) # 0

\* s.split(sep)[0]
SplitHead(s, sep) ==
    IF Contains(s, sep) THEN SubSeq(s, 1, Find(s, sep) - 1) ELSE s

\* s.split(sep, 1) when sep occurs in s
SplitOnce(s, sep) ==
    <<SubSeq(s, 1, Find(s, sep) - 1),
      SubSeq(s, Find(s, sep) + Len(sep), Len(s))>>

\* s.strip(chars): drop leading and trailing characters that are in chars
RECURSIVE LStrip(_, _)
LStrip(s, chars) ==
    IF s # <<>> /\ Head(s) \in chars THEN LStrip(Tail(s), chars) ELSE s

RECURSIVE RStrip(_, _)
RStrip(s, chars) ==
    IF s # <<>> /\ s[Len(s)] \in chars
    THEN RStrip(SubSeq(s, 1, Len(s) - 1), chars) ELSE s

StripChars(s, chars) == RStrip(LStrip(s, chars), chars)

Whitespace == {" "}

Strip(s) == StripChars(s, Whitespace)

-----------------------------------------------------------------------------
(* The stream: what one HTTP exchange with the station can produce. *)

WinAx == <<"#">> \o Needle \o <<"A"," ","-"," ","x","'",";","#">>
WinAy == Needle \o <<"A"," ","-"," ","y","'",";">>
WinBz == <<"#","#">> \o Needle \o <<" ","B"," ","-"," ","z"," ","'",";","#">>
WinNone == <<"#","#","#">>

Windows == {WinAx, WinAy, WinBz, WinNone}

\* the scan windows a station's stream can carry
Programme(u) == IF u = "http://a.fm" THEN Windows ELSE {WinBz, WinNone}

NoTitle == <<"None">>

\* The value get_mp3_stream_title returns for a scan window holding the marker
TitleOfWindow(buffer) ==
    SplitHead(SubSeq(buffer, Find(buffer, Needle) + Len(Needle), Len(buffer)),
              <<";">>)

\* extract_artist_and_song of src/app.py
extract_artist_and_song(title) ==
    LET t == StripChars(title, {"'"})
    IN  IF Contains(t, <<" ","-"," ">>)
        THEN <<Strip(SplitOnce(t, <<" ","-"," ">>)[1]),
               Strip(SplitOnce(t, <<" ","-"," ">>)[2])>>
        ELSE <<<<>>, Strip(t)>>

\* extract_artist_and_song of src/old.py
extract_artist_and_song_old(title) ==
    LET t == StripChars(title, {"'"})
    IN  IF Contains(t, <<"-">>)
        THEN <<Strip(SplitOnce(t, <<"-">>)[1]), Strip(SplitOnce(t, <<"-">>)[2])>>
        ELSE <<<<>>, Strip(t)>>

-----------------------------------------------------------------------------
(* Station URLs a client may send. *)

HttpUrls == {"http://a.fm", "http://b.fm"}
OtherSchemeUrls == {"ftp://a.fm"}
MalformedUrls == {"not a url"}
Urls == HttpUrls \cup OtherSchemeUrls \cup MalformedUrls

\* session.get / urlopen reach a server that answers with a stream: the HTTP
\* stations; for any other string the request raises
CanOpen(u) == u \in HttpUrls

\* validators.url(radio_url): the library accepts a well-formed URL of any
\* scheme it knows, ftp among them; line 172 adds no test of the scheme
ValidUrl(u) == u \in HttpUrls \cup OtherSchemeUrls

-----------------------------------------------------------------------------
(* Rows and queries of the tables. *)

SongHistory(u, artist, song, at) ==
    [radio_url |-> u, artist |-> artist, song |-> song, played_at |-> at]

LastPlayedSong(u, artist, song, at) ==
    [radio_url |-> u, artist |-> artist, song |-> song, played_at |-> at]

\* db.query(SongHistory).filter_by(radio_url=u): the station's rows, oldest first
HistoryOf(u) == SelectSeq(song_history, LAMBDA r : r.radio_url = u)

\* db.query(LastPlayedSong).filter_by(radio_url=u).first(): no row or one row
LastPlayedOf(u) == {r \in last_played_song : r.radio_url = u}

\* a sort that lost its .desc(): oldest first
OrderByPlayedAtAsc(rows) ==
    LET n == Len(rows)
        perms == {p \in [1..n -> 1..n] : \A i, j \in 1..n : i # j => p[i] # p[j]}
    IN  {[i \in 1..n |-> rows[p[i]]] : p \in
            {q \in perms : \A i \in 1..(n - 1) :
                rows[q[i]].played_at <= rows[q[i + 1]].played_at}}

\* .order_by(SongHistory.played_at.desc()): every order the sort may return
\* (rows of equal played_at come in either order)
OrderByPlayedAtDesc(rows) ==
    LET n == Len(rows)
        perms == {p \in [1..n -> 1..n] : \A i, j \in 1..n : i # j => p[i] # p[j]}
    IN  {[i \in 1..n |-> rows[p[i]]] : p \in
            {q \in perms : \A i \in 1..(n - 1) :
                rows[q[i]].played_at >= rows[q[i + 1]].played_at}}

\* .limit(limit).offset(offset) of an ordered result
LimitOffset(rows, limit, offset) ==
    IF offset >= Len(rows) THEN <<>>
    ELSE SubSeq(rows, offset + 1,
                IF offset + limit <= Len(rows) THEN offset + limit ELSE Len(rows))

Pairs(rows) == [i \in 1..Len(rows) |-> <<rows[i].artist, rows[i].song>>]

NoResponse == [status |-> 0, message |-> ""]

Reply(status, message) == [status |-> status, message |-> message]

-----------------------------------------------------------------------------
(* src/old.py: asyncio tasks. *)

\* the frame of a monitor_radio coroutine when it is created; `name` is a
\* parameter of the coroutine and its body never uses it
monitor_radio(radio_url, name) ==
    [url |-> radio_url, pc |-> "fetch", last_song |-> <<<<>>, <<>>>>, offset |-> 0]

\* asyncio.create_task(coro): no name is given, the loop names the task Task-N
create_task(coro) ==
    Append(tasks, [name |-> <<"Task-", Len(tasks) + 1>>] @@ coro)

\* f"monitor_{radio_url}"
MonitorName(u) == <<"monitor_", u>>

\* task.done() == False
Live(i) == tasks[i].pc # "done"

\* any(task.get_name() == f"monitor_{radio_url}" for task in all_tasks() if not done)
MonitorRunning(u) ==
    \E i \in 1..Len(tasks) : Live(i) /\ tasks[i].name = MonitorName(u)

StationUrls == {radio_stations[i].url : i \in 1..Len(radio_stations)}

\* a startup that reads one station row where the code reads them all
SpawnFirst(ts, rows) ==
    IF rows = <<>> THEN ts
    ELSE Append(ts, [name |-> <<"Task-", Len(ts) + 1>>]
                    @@ monitor_radio(Head(rows).url, MonitorName(Head(rows).url)))

\* the tasks list after startup_event has created one monitor per station row
RECURSIVE SpawnAll(_, _)
SpawnAll(ts, rows) ==
    IF rows = <<>> THEN ts
    ELSE SpawnAll(
            Append(ts, [name |-> <<"Task-", Len(ts) + 1>>]
                       @@ monitor_radio(Head(rows).url, MonitorName(Head(rows).url))),
            Tail(rows))

startup_event_old ==
    /\ variant = "old"
    /\ phase = "boot"
    /\ phase' = "up"
    /\ tasks' = SpawnAll(tasks, radio_stations)
    /\ UNCHANGED <<shot, variant, now, radio_stations, song_history, last_played_song,
                   reqs, response>>

start_monitoring(radio_url) ==
    /\ variant = "old"
    /\ phase = "up"
    /\ IF ~ValidUrl(radio_url)
       THEN /\ response' = Reply(400, "invalid url")
            /\ UNCHANGED <<tasks, radio_stations>>
       ELSE IF ~MonitorRunning(radio_url)
       THEN /\ Len(tasks) < MaxTasks
            /\ tasks' = create_task(monitor_radio(radio_url, MonitorName(radio_url)))
            /\ radio_stations' =
                 IF radio_url \in StationUrls THEN radio_stations
                 ELSE Append(radio_stations, [url |-> radio_url])
            /\ response' = Reply(200, "started")
       ELSE /\ response' = Reply(200, "already running")
            /\ UNCHANGED <<tasks, radio_stations>>
    /\ UNCHANGED <<shot, variant, phase, now, song_history, last_played_song, reqs>>

\* an exception leaves monitor_radio: the task is done and its frame is gone
Raised(t) == [t EXCEPT !.pc = "done", !.last_song = <<<<>>, <<>>>>, !.offset = 0]

\* a monitor that compares with its own last_song only and does not ask
\* the table
RecordedOnChange(i, title) ==
    LET t == tasks[i]
        pair == extract_artist_and_song_old(title)
    IN  /\ title # NoTitle
        /\ title # <<>>
        /\ pair[1] # t.last_song[1] \/ pair[2] # t.last_song[2]

\* monitor_radio, from the title to the sleep: lines 141-156 run without an
\* await, so no other coroutine runs in between.  The row is stamped with the
\* clock, which has moved on by the time the next row is written.
Recorded(i, title) ==
    LET t == tasks[i]
        pair == extract_artist_and_song_old(title)
        changed == pair[1] # t.last_song[1] \/ pair[2] # t.last_song[2]
        absent == ~\E k \in 1..Len(song_history) :
                      /\ song_history[k].radio_url = t.url
                      /\ song_history[k].artist = pair[1]
                      /\ song_history[k].song = pair[2]
    IN  title # NoTitle /\ title # <<>> /\ changed /\ absent

MonitorBody(i, title) ==
    LET t == tasks[i]
        pair == extract_artist_and_song_old(title)
    IN  IF Recorded(i, title)
        THEN /\ Len(song_history) < MaxHistory
             /\ song_history' =
                  Append(song_history, SongHistory(t.url, pair[1], pair[2], now))
             /\ now' = now + 1
             /\ tasks' = [tasks EXCEPT ![i].pc = "sleep", ![i].last_song = pair,
                                       ![i].offset = 0]
        ELSE /\ tasks' = [tasks EXCEPT ![i].pc = "sleep", ![i].offset = 0]
             /\ UNCHANGED <<song_history, now>>

\* get_mp3_stream_title (old.py), up to the response headers: the request
\* raises, or the headers lack icy-metaint (returns None), or they carry it
MonitorOpen(i) ==
    /\ variant = "old"
    /\ i \in 1..Len(tasks)
    /\ tasks[i].pc = "fetch"
    /\ \/ /\ tasks' = [tasks EXCEPT ![i] = Raised(tasks[i])]
          /\ UNCHANGED <<song_history, now>>
       \/ /\ CanOpen(tasks[i].url)
          /\ MonitorBody(i, NoTitle)
       \/ /\ CanOpen(tasks[i].url)
          /\ tasks' = [tasks EXCEPT ![i].pc = "scan", ![i].offset = 0]
          /\ UNCHANGED <<song_history, now>>
    /\ UNCHANGED <<shot, variant, phase, radio_stations, last_played_song, reqs,
                   response>>

\* get_mp3_stream_title (old.py), one turn of its while True: discard the audio
\* bytes, read a window, return the title if the marker is in it, else go on
MonitorScan(i) ==
    /\ variant = "old"
    /\ i \in 1..Len(tasks)
    /\ tasks[i].pc = "scan"
    /\ \/ /\ tasks' = [tasks EXCEPT ![i] = Raised(tasks[i])]
          /\ UNCHANGED <<song_history, now>>
       \/ \E buffer \in Programme(tasks[i].url) :
            IF Contains(buffer, Needle)
            THEN MonitorBody(i, TitleOfWindow(buffer))
            ELSE /\ tasks[i].offset < MaxScans
                 /\ tasks' = [tasks EXCEPT ![i].offset = @ + 1]
                 /\ UNCHANGED <<song_history, now>>
    /\ UNCHANGED <<shot, variant, phase, radio_stations, last_played_song, reqs,
                   response>>

\* await asyncio.sleep(10) returns
MonitorWake(i) ==
    /\ variant = "old"
    /\ i \in 1..Len(tasks)
    /\ tasks[i].pc = "sleep"
    /\ tasks' = [tasks EXCEPT ![i].pc = "fetch"]
    /\ UNCHANGED <<shot, variant, phase, now, radio_stations, song_history,
                   last_played_song, reqs, response>>

\* what GET /radio_info/ of old.py can return: the current song (the latest
\* row) and the SONG_HISTORY_LIMIT rows after it
RadioInfoResults(radio_url) ==
    {[current |-> IF top = <<>> THEN <<<<>>, <<>>>>
                  ELSE <<top[1].artist, top[1].song>>,
      songHistory |-> Pairs(LimitOffset(ordered, SONG_HISTORY_LIMIT, 1))] :
        top \in OrderByPlayedAtDesc(HistoryOf(radio_url)),
        ordered \in OrderByPlayedAtDesc(HistoryOf(radio_url))}

\* what GET /radio_history/ of old.py can return for a page
RadioHistoryResults(radio_url, limit, page) ==
    {LimitOffset(ordered, limit, (page - 1) * limit) :
        ordered \in OrderByPlayedAtDesc(HistoryOf(radio_url))}

\* a radio_info that empties the station's history where the code reads it
get_radio_info_old_deletes(radio_url) ==
    /\ variant = "old"
    /\ phase = "up"
    /\ response' = Reply(200, "radio_info")
    /\ song_history' = SelectSeq(song_history, LAMBDA r : r.radio_url # radio_url)
    /\ UNCHANGED <<shot, variant, phase, now, radio_stations, last_played_song, tasks, reqs>>

\* GET /radio_info/ of old.py
get_radio_info_old(radio_url) ==
    /\ variant = "old"
    /\ phase = "up"
    /\ \E result \in RadioInfoResults(radio_url) :
         response' = Reply(200, "radio_info")
    /\ UNCHANGED <<shot, variant, phase, now, radio_stations, song_history,
                   last_played_song, tasks, reqs>>

\* GET /radio_history/ of old.py
get_radio_history(radio_url, limit, page) ==
    /\ variant = "old"
    /\ phase = "up"
    /\ \E result \in RadioHistoryResults(radio_url, limit, page) :
         response' = Reply(200, "radio_history")
    /\ UNCHANGED <<shot, variant, phase, now, radio_stations, song_history,
                   last_played_song, tasks, reqs>>

\* time passes, in steps that stop on either side of MIN_HISTORY_INTERVAL
Tick ==
    /\ variant = "app"
    /\ \E d \in {MIN_HISTORY_INTERVAL, MIN_HISTORY_INTERVAL + 1} :
         /\ now + d <= MaxTime
         /\ now' = now + d
    /\ UNCHANGED <<shot, variant, phase, radio_stations, song_history, last_played_song,
                   tasks, reqs, response>>

-----------------------------------------------------------------------------
(* src/app.py: GET /radio_info/, a synchronous handler; the server runs each *)
(* request on a worker thread, so requests interleave statement by statement *)
(* and share only the database and the clock.                                *)

ReqIds == 1..MaxReqs

IdleReq == [pc |-> "idle", url |-> "", artist |-> <<>>, song |-> <<>>,
            last |-> {}, at |-> 0, offset |-> 0]

\* the condition with >= where the code has >
ShouldRecordAtLeast(last, artist, song, t) ==
    \/ last = {}
    \/ \E l \in last :
         /\ <<artist, song>> # <<l.artist, l.song>>
         /\ t - l.played_at >= MIN_HISTORY_INTERVAL

\* the condition with `or` where the code has `and`
ShouldRecordEither(last, artist, song, t) ==
    \/ last = {}
    \/ \E l \in last :
         \/ <<artist, song>> # <<l.artist, l.song>>
         \/ t - l.played_at > MIN_HISTORY_INTERVAL

\* the condition of lines 276-280; `last` is what line 274 read
ShouldRecord(last, artist, song, t) ==
    \/ last = {}
    \/ \E l \in last :
         /\ <<artist, song>> # <<l.artist, l.song>>
         /\ t - l.played_at > MIN_HISTORY_INTERVAL

\* the handler's except clause: any failure leaves as a 500 response
Fail500(r) == reqs' = [reqs EXCEPT ![r] = IdleReq]

\* get_mp3_stream_title (app.py), up to the response headers.  No title
\* (request error, or no icy-metaint header) is a 404 raised inside the try,
\* which the except clause turns into a 500.
RadioInfoOpen(r, radio_url) ==
    /\ variant = "app"
    /\ phase = "up"
    /\ reqs[r].pc = "idle"
    /\ \/ reqs' = [reqs EXCEPT ![r] = IdleReq]
       \/ /\ CanOpen(radio_url)
          /\ reqs' = [reqs EXCEPT ![r] = [IdleReq EXCEPT !.pc = "scan",
                                                         !.url = radio_url]]
    /\ UNCHANGED <<shot, variant, phase, now, radio_stations, song_history,
                   last_played_song, tasks, response>>

\* get_mp3_stream_title (app.py), one turn of its while True; with the title,
\* lines 270-274: split it and read the station's LastPlayed row
RadioInfoScan(r) ==
    /\ variant = "app"
    /\ reqs[r].pc = "scan"
    /\ \/ Fail500(r)
       \/ \E buffer \in Programme(reqs[r].url) :
            IF Contains(buffer, Needle)
            THEN LET title == TitleOfWindow(buffer)
                     pair == extract_artist_and_song(title)
                 IN  IF title = <<>>
                     THEN Fail500(r)
                     ELSE reqs' = [reqs EXCEPT ![r].pc = "decide",
                                                  ![r].artist = pair[1],
                                                  ![r].song = pair[2],
                                                  ![r].last = LastPlayedOf(reqs[r].url),
                                                  ![r].offset = 0]
            ELSE /\ reqs[r].offset < MaxScans
                 /\ reqs' = [reqs EXCEPT ![r].offset = @ + 1]
    /\ UNCHANGED <<shot, variant, phase, now, radio_stations, song_history,
                   last_played_song, tasks, response>>

\* lines 276-290: the condition, and the changes staged in the session; when
\* nothing is to be recorded, lines 295-317 read the tables back and answer
RadioInfoDecide(r) ==
    /\ variant = "app"
    /\ reqs[r].pc = "decide"
    /\ IF ShouldRecord(reqs[r].last, reqs[r].artist, reqs[r].song, now)
       THEN reqs' = [reqs EXCEPT ![r].pc = "commit", ![r].at = now]
       ELSE reqs' = [reqs EXCEPT ![r] = IdleReq]
    /\ UNCHANGED <<shot, variant, phase, now, radio_stations, song_history,
                   last_played_song, tasks, response>>

\* the UPDATE the session emits for the loaded row: only the columns whose
\* value differs from the loaded one are set, on the row the table holds now
UpdatedRow(cur, loaded, artist, song, at) ==
    [radio_url |-> cur.radio_url,
     artist |-> IF artist # loaded.artist THEN artist ELSE cur.artist,
     song |-> IF song # loaded.song THEN song ELSE cur.song,
     played_at |-> IF at # loaded.played_at THEN at ELSE cur.played_at]

\* the rows of last_played_song after the transaction of line 292
CommitLastPlayed(q) ==
    IF q.last = {}
    THEN last_played_song \cup {LastPlayedSong(q.url, q.artist, q.song, now)}
    ELSE {IF row.radio_url = q.url
          THEN UpdatedRow(row, CHOOSE l \in q.last : TRUE, q.artist, q.song, q.at)
          ELSE row : row \in last_played_song}

\* a commit that rotates the table: the oldest row makes room for the new one
CommitHistoryRotating(q) ==
    Append(IF song_history = <<>> THEN <<>> ELSE Tail(song_history),
           SongHistory(q.url, q.artist, q.song, now))

\* the rows of song_history after the transaction of line 292
CommitHistory(q) ==
    Append(song_history, SongHistory(q.url, q.artist, q.song, now))

\* the primary key of last_played_song rejects a second row for the station
PrimaryKeyConflict(q) == q.last = {} /\ LastPlayedOf(q.url) # {}

\* line 292: db.commit() writes both tables in one transaction, or neither;
\* then lines 295-317 read the tables back and answer
RadioInfoCommit(r) ==
    /\ variant = "app"
    /\ reqs[r].pc = "commit"
    /\ IF PrimaryKeyConflict(reqs[r])
       THEN /\ Fail500(r)
            /\ UNCHANGED <<song_history, last_played_song>>
       ELSE /\ Len(song_history) < MaxHistory
            /\ song_history' = CommitHistory(reqs[r])
            /\ last_played_song' = CommitLastPlayed(reqs[r])
            /\ reqs' = [reqs EXCEPT ![r] = IdleReq]
    /\ UNCHANGED <<shot, variant, phase, now, radio_stations, tasks, response>>

\* startup_event of app.py: reads last_played_song, changes only objects in
\* memory and commits nothing
startup_event_app ==
    /\ variant = "app"
    /\ phase = "boot"
    /\ phase' = "up"
    /\ UNCHANGED <<shot, variant, now, radio_stations, song_history, last_played_song,
                   tasks, reqs, response>>

-----------------------------------------------------------------------------
(* The one-shot endpoints: GET /get_stream_title/ (both files) and          *)
(* GET /get_stream_details/ (src/app.py).  They read the stream once, split *)
(* the title and ask the iTunes search for details; they use no table and   *)
(* share nothing with the monitors or with radio_info.                      *)

\* characters of a title: a letter, the blank, and the three characters the
\* code treats specially
TitleChars == {"A", " ", "-", "'", ";"}

Words == UNION {[1..n -> TitleChars] : n \in 0..MaxWord}

\* the text a station puts between StreamTitle=' and ';
Texts == Words \cup {x \o <<" ", "-", " ">> \o y : x \in Words, y \in Words}

\* the scan windows of a one-shot read: metadata with any of the texts, at
\* the start of the window or after audio bytes, or no metadata
ShotWindows ==
    {pre \o Needle \o t \o <<"'", ";">> : pre \in {<<>>, <<"#">>}, t \in Texts}
        \cup {WinNone}

\* what the iTunes search can answer: a track, no track, an HTTP or network
\* error (requests.exceptions.RequestException), or JSON without the keys
\* the code reads (KeyError)
LookupOutcomes == {"found", "empty", "request_error", "malformed"}

\* get_album_art: the artwork URL, None, or the exception that leaves it;
\* its except clause catches RequestException only
get_album_art(outcome) ==
    CASE outcome = "found" -> "art"
      [] outcome = "empty" -> "absent"
      [] outcome = "request_error" -> "absent"
      [] outcome = "malformed" -> "raises"

\* fetch_itunes_track_details: the details or None; its except clause catches
\* every Exception
fetch_itunes_track_details(outcome) ==
    IF outcome = "found" THEN "track" ELSE "absent"

NoReply == [status |-> 0, artist |-> <<>>, song |-> <<>>, details |-> ""]

ErrorReply(status) == [NoReply EXCEPT !.status = status]

IdleShot == [pc |-> "idle", endpoint |-> "", offset |-> 0, buffer |-> <<>>,
             title |-> <<>>, artist |-> <<>>, song |-> <<>>, reply |-> NoReply]

Endpoints == IF variant = "app" THEN {"get_stream_title", "get_stream_details"}
             ELSE {"get_stream_title"}

\* the parser of the file that is deployed
Parser(title) ==
    IF variant = "app" THEN extract_artist_and_song(title)
    ELSE extract_artist_and_song_old(title)

\* the reply when get_mp3_stream_title gives no title.  app.py's reader
\* catches the error and returns None; old.py's lets it out, into the
\* endpoint's except clause.  get_stream_title answers None with 404;
\* get_stream_details raises a 404 inside its try, which its except clause
\* turns into a 500.
NoTitleReply(endpoint, raised) ==
    IF endpoint = "get_stream_details" THEN ErrorReply(500)
    ELSE IF raised /\ variant = "old" THEN ErrorReply(500)
    ELSE ErrorReply(404)

\* the endpoint is called and get_mp3_stream_title opens the stream
ShotOpen(endpoint, url) ==
    /\ phase = "up"
    /\ endpoint \in Endpoints
    /\ shot.pc \in {"idle", "done"}
    /\ \/ shot' = [IdleShot EXCEPT !.pc = "done", !.endpoint = endpoint,
                                   !.reply = NoTitleReply(endpoint, TRUE)]
       \/ /\ CanOpen(url)
          /\ shot' = [IdleShot EXCEPT !.pc = "done", !.endpoint = endpoint,
                                      !.reply = NoTitleReply(endpoint, FALSE)]
       \/ /\ CanOpen(url)
          /\ shot' = [IdleShot EXCEPT !.pc = "scan", !.endpoint = endpoint]
    /\ UNCHANGED <<variant, phase, now, radio_stations, song_history,
                   last_played_song, tasks, reqs, response>>

\* one turn of get_mp3_stream_title's while True; with the title, the
\* endpoint splits it
ShotScan ==
    /\ shot.pc = "scan"
    /\ \/ shot' = [shot EXCEPT !.pc = "done", !.offset = 0,
                               !.reply = NoTitleReply(shot.endpoint, TRUE)]
       \/ \E buffer \in ShotWindows :
            IF Contains(buffer, Needle)
            THEN LET title == TitleOfWindow(buffer)
                 IN  IF title = <<>>
                     THEN shot' = [shot EXCEPT !.pc = "done", !.offset = 0,
                                     !.reply = NoTitleReply(shot.endpoint, FALSE)]
                     ELSE shot' = [shot EXCEPT !.pc = "lookup", !.offset = 0,
                                               !.buffer = buffer,
                                               !.title = title,
                                               !.artist = Parser(title)[1],
                                               !.song = Parser(title)[2]]
            ELSE /\ shot.offset < MaxScans
                 /\ shot' = [shot EXCEPT !.offset = @ + 1]
    /\ UNCHANGED <<variant, phase, now, radio_stations, song_history,
                   last_played_song, tasks, reqs, response>>

\* lines 242-251 of app.py: the details, or a 404 raised inside the try,
\* which the except clause turns into a 500; the details come as iTunes
\* gives them, the reply does not carry the parsed artist and song
StreamDetailsReply(artist, song, details) ==
    IF details = "absent" THEN ErrorReply(500)
    ELSE [status |-> 200, artist |-> <<>>, song |-> <<>>, details |-> details]

\* get_stream_title: {"artist", "song", "art"}, or the 500 of its except
\* clause when get_album_art raises
StreamTitleReply(artist, song, art) ==
    IF art = "raises" THEN ErrorReply(500)
    ELSE [status |-> 200, artist |-> artist, song |-> song, details |-> art]

\* the lookup and the reply
ShotLookup ==
    /\ shot.pc = "lookup"
    /\ \E outcome \in LookupOutcomes :
         shot' = [shot EXCEPT
                    !.pc = "done",
                    !.reply =
                       IF shot.endpoint = "get_stream_details"
                       THEN StreamDetailsReply(shot.artist, shot.song,
                                               fetch_itunes_track_details(outcome))
                       ELSE StreamTitleReply(shot.artist, shot.song,
                                             get_album_art(outcome))]
    /\ UNCHANGED <<variant, phase, now, radio_stations, song_history,
                   last_played_song, tasks, reqs, response>>

-----------------------------------------------------------------------------
(* The registry a process finds at startup: any rows of distinct urls. *)

Registries == {<<>>, <<[url |-> "http://a.fm"]>>,
               <<[url |-> "http://a.fm"], [url |-> "http://b.fm"]>>}

Init ==
    /\ variant \in {"old", "app"}
    /\ phase = "boot"
    /\ now = 0
    /\ radio_stations \in (IF variant = "old" THEN Registries ELSE {<<>>})
    /\ song_history = <<>>
    /\ last_played_song = {}
    /\ tasks = <<>>
    /\ reqs = [r \in ReqIds |-> IdleReq]
    /\ response = NoResponse
    /\ shot = IdleShot

NextOld ==
    \/ startup_event_old
    \/ \E u \in Urls : start_monitoring(u)
    \/ \E i \in 1..MaxTasks : MonitorOpen(i)
    \/ \E i \in 1..MaxTasks : MonitorScan(i)
    \/ \E i \in 1..MaxTasks : MonitorWake(i)
    \/ \E u \in Urls : get_radio_info_old(u)
    \/ \E u \in Urls, limit \in 1..2, page \in 1..2 : get_radio_history(u, limit, page)

NextApp ==
    \/ startup_event_app
    \/ \E r \in ReqIds, u \in Urls : RadioInfoOpen(r, u)
    \/ \E r \in ReqIds : RadioInfoScan(r)
    \/ \E r \in ReqIds : RadioInfoDecide(r)
    \/ \E r \in ReqIds : RadioInfoCommit(r)
    \/ Tick

Next == NextOld \/ NextApp

NextOneShot ==
    \/ startup_event_old
    \/ startup_event_app
    \/ \E endpoint \in {"get_stream_title", "get_stream_details"}, u \in Urls :
         ShotOpen(endpoint, u)
    \/ ShotScan
    \/ ShotLookup

InitOld == Init /\ variant = "old"
InitApp == Init /\ variant = "app"

\* either variant
Spec == Init /\ [][Next]_vars

\* src/old.py alone, src/app.py alone
SpecOld == InitOld /\ [][NextOld]_vars
SpecApp == InitApp /\ [][NextApp]_vars

\* src/app.py serving one radio_info request at a time
NextAppSeq ==
    \/ startup_event_app
    \/ \E u \in Urls : RadioInfoOpen(1, u)
    \/ RadioInfoScan(1)
    \/ RadioInfoDecide(1)
    \/ RadioInfoCommit(1)
    \/ Tick

SpecAppSeq == InitApp /\ [][NextAppSeq]_vars

\* the one-shot endpoints of either file, on their own
SpecOneShot == Init /\ [][NextOneShot]_vars

-----------------------------------------------------------------------------
(* Notions the properties are stated in. *)

\* a monitor of station u is running
HasLiveMonitor(u) == \E i \in 1..Len(tasks) : Live(i) /\ tasks[i].url = u

\* some monitor_radio task takes a step
MonitorStep == variant = "old" /\ \E i \in 1..Len(tasks) : tasks'[i] # tasks[i]

TablesChanged ==
    song_history' # song_history \/ last_played_song' # last_played_song

\* the last row of a station's history, as a set (empty without history)
LatestPair(u) ==
    IF HistoryOf(u) = <<>> THEN {}
    ELSE {<<HistoryOf(u)[Len(HistoryOf(u))].artist,
            HistoryOf(u)[Len(HistoryOf(u))].song>>}

Sep == <<" ", "-", " ">>

\* the value of StreamTitle in an ICY metadata block: the text between
\* StreamTitle=' and the first '; after it
ICYValue(buffer) ==
    LET rest == SubSeq(buffer, Find(buffer, Needle) + Len(Needle), Len(buffer))
    IN  SubSeq(rest, 1, Find(rest, <<"'", ";">>) - 1)

\* a one-shot request has extracted a title from its window
TitleExtracted == shot.pc \in {"lookup", "done"} /\ shot.title # <<>>

\* a text without the characters that delimit the metadata block
Plain(text) == \A i \in 1..Len(text) : text[i] \notin {"'", ";"}

-----------------------------------------------------------------------------
(* C1: at most one live monitor task per station URL, after any sequence of *)
(* startup recovery and start_monitoring requests.                          *)
C1_OneMonitorPerStation ==
    \A i, j \in 1..Len(tasks) :
        (Live(i) /\ Live(j) /\ tasks[i].url = tasks[j].url) => i = j

(* C2: start_monitoring for a station that has a live monitor spawns no     *)
(* task, changes nothing and answers "already running".                     *)
C2_StartIsIdempotent ==
    [][\A u \in HttpUrls :
          (HasLiveMonitor(u) /\ start_monitoring(u)) =>
              /\ tasks' = tasks
              /\ radio_stations' = radio_stations
              /\ response' = Reply(200, "already running")]_vars

(* C3: radio_info decides to record exactly when there is no prior          *)
(* LastPlayed, or the observed pair differs from it and more than           *)
(* MIN_HISTORY_INTERVAL seconds have passed since its played_at.            *)
C3_DecisionIsShouldRecord ==
    [][\A r \in ReqIds :
          (reqs[r].pc = "decide" /\ reqs'[r] # reqs[r]) =>
              LET q == reqs[r]
                  differs == \A l \in q.last : q.artist # l.artist \/ q.song # l.song
                  elapsed == \A l \in q.last : now - l.played_at > MIN_HISTORY_INTERVAL
              IN  /\ q.last = {} => reqs'[r].pc = "commit"
                  /\ (q.last # {} /\ differs /\ elapsed) => reqs'[r].pc = "commit"
                  /\ (q.last # {} /\ ~differs) => reqs'[r].pc = "idle"
                  /\ (q.last # {} /\ ~elapsed) => reqs'[r].pc = "idle"]_vars

C3_Witness ==
    \E r \in ReqIds :
        /\ reqs[r].pc = "commit"
        /\ \E l \in reqs[r].last :
             /\ <<l.artist, l.song>> # <<reqs[r].artist, reqs[r].song>>
             /\ reqs[r].at - l.played_at = MIN_HISTORY_INTERVAL + 1

(* C4: when the observed pair equals the LastPlayed pair the request read,  *)
(* however long ago it was played, the request appends no HistoryEntry and  *)
(* leaves LastPlayed, played_at included, as it is.                         *)
C4_SamePairWritesNothing ==
    [][\A r \in ReqIds :
          (/\ reqs[r].pc = "decide"
           /\ \E l \in reqs[r].last : l.artist = reqs[r].artist /\ l.song = reqs[r].song
           /\ reqs'[r] # reqs[r]) =>
              /\ reqs'[r].pc = "idle"
              /\ song_history' = song_history
              /\ last_played_song' = last_played_song]_vars

C4_Witness ==
    \E r \in ReqIds :
        /\ reqs[r].pc = "decide"
        /\ \E l \in reqs[r].last :
             /\ l.artist = reqs[r].artist /\ l.song = reqs[r].song
             /\ now - l.played_at > MIN_HISTORY_INTERVAL

(* C5: in every state a reader can see, a station has a LastPlayed row      *)
(* exactly when it has a HistoryEntry, and the row's (artist, song) is that *)
(* of the station's most recently appended HistoryEntry.                    *)
C5_LastPlayedMatchesHistory ==
    variant = "app" =>
        \A u \in HttpUrls :
            /\ LastPlayedOf(u) # {} <=> HistoryOf(u) # <<>>
            /\ {<<l.artist, l.song>> : l \in LastPlayedOf(u)} = LatestPair(u)

(* C6: at most one LastPlayed row per station, and a station's played_at    *)
(* never decreases from one update to the next.                             *)
C6_OneRowAndMonotone ==
    [][/\ \A l, m \in last_played_song' : l.radio_url = m.radio_url => l = m
       /\ \A l \in last_played_song, m \in last_played_song' :
            l.radio_url = m.radio_url => m.played_at >= l.played_at]_vars

(* C7: a monitor whose stream opens without an icy-metaint header ends in a *)
(* terminal state (it polls no more) and writes no HistoryEntry.            *)
C7_NoMetadataIsTerminal ==
    [][\A i \in 1..Len(tasks) :
          (tasks[i].pc = "fetch" /\ tasks'[i].pc \notin {"fetch", "scan"}) =>
              /\ tasks'[i].pc = "done"
              /\ song_history' = song_history]_vars

(* C8: the startup event starts a monitor for every registered station:     *)
(* when it has run, every URL of the registry has a live monitor.           *)
C8_StartupStartsEveryStation ==
    [][(variant = "old" /\ phase = "boot" /\ phase' = "up") =>
          \A k \in 1..Len(radio_stations') :
              \E i \in 1..Len(tasks') :
                  tasks'[i].pc # "done" /\ tasks'[i].url = radio_stations'[k].url]_vars

C8_Witness ==
    /\ variant = "old"
    /\ phase = "up"
    /\ Len(radio_stations) = 2
    /\ Len(tasks) = 2
    /\ \A u \in StationUrls : HasLiveMonitor(u)

(* C9: start_monitoring with a URL that is not a well-formed absolute       *)
(* HTTP(S) URL answers 400 and has no side effect: no task, no registry     *)
(* row, no table change.                                                    *)
C9_InvalidUrlNoSideEffect ==
    [][\A u \in Urls \ HttpUrls :
          start_monitoring(u) =>
              /\ response' = Reply(400, "invalid url")
              /\ UNCHANGED <<tasks, radio_stations, song_history, last_played_song>>]_vars

(* C9, the part that holds: a string the validator rejects is answered 400  *)
(* and has no side effect.                                                  *)
C9_RejectedUrlNoSideEffect ==
    [][\A u \in MalformedUrls :
          start_monitoring(u) =>
              /\ response' = Reply(400, "invalid url")
              /\ UNCHANGED <<tasks, radio_stations, song_history, last_played_song>>]_vars

(* C10, as stated: the query operations leave HistoryEntry rows and         *)
(* LastPlayed unchanged; only a station's monitor writes them.              *)
C10_OnlyMonitorWrites == [][TablesChanged => MonitorStep]_vars

(* C10, amended: old.py's radio_info and radio_history are read-only and    *)
(* only its monitor writes; app.py's radio_info is the writer of its        *)
(* tables, in its commit alone and for the requested station alone.         *)
C10_WritersAreMonitorAndCommit ==
    [][TablesChanged =>
          \/ MonitorStep
          \/ /\ variant = "app"
             /\ \E r \in ReqIds :
                  /\ reqs[r].pc = "commit" /\ reqs'[r].pc = "idle"
                  /\ \A u \in HttpUrls \ {reqs[r].url} :
                       /\ HistoryOf(u)' = HistoryOf(u)
                       /\ LastPlayedOf(u)' = LastPlayedOf(u)]_vars

C10_Witness ==
    /\ variant = "old"
    /\ response = Reply(200, "radio_info")
    /\ song_history # <<>>

(* C11: HistoryEntry rows are append-only: every step leaves song_history   *)
(* as it is or appends one row to it; no row is changed or removed.         *)
C11_HistoryAppendOnly ==
    [][\/ song_history' = song_history
       \/ /\ Len(song_history') = Len(song_history) + 1
          /\ SubSeq(song_history', 1, Len(song_history)) = song_history]_vars

C11_Witness ==
    /\ variant = "app"
    /\ Len(song_history) >= 2
    /\ \E i, j \in 1..Len(song_history) :
         i # j /\ song_history[i].radio_url = song_history[j].radio_url

(* C12: once the stream title was extracted, a one-shot endpoint answers    *)
(* 200 whatever the lookup does, and when the lookup gave no details the    *)
(* reply still carries the artist and the song.                             *)
C12_LookupFailureIsAbsorbed ==
    (shot.pc = "done" /\ shot.title # <<>>) =>
        /\ shot.reply.status = 200
        /\ shot.reply.details = "absent" =>
              (shot.reply.artist = shot.artist /\ shot.reply.song = shot.song)

(* C13: for a window holding StreamTitle='X - Y'; the extraction followed   *)
(* by extract_artist_and_song (app.py) gives artist X and song Y, split at  *)
(* the first " - " and trimmed of surrounding whitespace.                   *)
C13_TitleIsParsed ==
    LET v == ICYValue(shot.buffer)
    IN  (variant = "app" /\ TitleExtracted /\ Contains(v, Sep)) =>
            /\ shot.artist = Strip(SubSeq(v, 1, Find(v, Sep) - 1))
            /\ shot.song = Strip(SubSeq(v, Find(v, Sep) + Len(Sep), Len(v)))

(* C13, the part that holds: the same, for X and Y without an apostrophe    *)
(* and without a semicolon.                                                 *)
C13_PlainTitleIsParsed ==
    LET v == ICYValue(shot.buffer)
    IN  (variant = "app" /\ TitleExtracted /\ Contains(v, Sep) /\ Plain(v)) =>
            /\ shot.artist = Strip(SubSeq(v, 1, Find(v, Sep) - 1))
            /\ shot.song = Strip(SubSeq(v, Find(v, Sep) + Len(Sep), Len(v)))

(* C14: for a title without " - " the parser gives an empty artist and the  *)
(* whole trimmed text as song, in old.py (the monitor's parser) as in       *)
(* app.py.  Stated for texts without apostrophe and semicolon, where the    *)
(* text between the quotes is what the parser gets.                         *)
C14_NoSeparatorGivesSongOnly ==
    LET v == ICYValue(shot.buffer)
    IN  (TitleExtracted /\ Plain(v) /\ ~Contains(v, Sep)) =>
            /\ shot.artist = <<>>
            /\ shot.song = Strip(v)

(* C14, the part that holds: the same for the parser of app.py.             *)
C14_NoSeparatorGivesSongOnlyApp ==
    LET v == ICYValue(shot.buffer)
    IN  (variant = "app" /\ TitleExtracted /\ Plain(v) /\ ~Contains(v, Sep)) =>
            /\ shot.artist = <<>>
            /\ shot.song = Strip(v)

\* a sequence, last element first
Reverse(seq) == [i \in 1..Len(seq) |-> seq[Len(seq) + 1 - i]]

\* entries (page-1)*limit+1 .. page*limit of a station's history, newest first
PageOfHistory(u, limit, page) ==
    LET newestFirst == Reverse(HistoryOf(u))
        first == (page - 1) * limit + 1
        last == IF page * limit <= Len(newestFirst) THEN page * limit
                ELSE Len(newestFirst)
    IN  IF first > Len(newestFirst) THEN <<>> ELSE SubSeq(newestFirst, first, last)

C16_ReadFailureKeepsMonitor ==
    [][\A i \in 1..Len(tasks) :
          /\ Live(i) => tasks'[i].pc # "done"
          /\ tasks'[i] # tasks[i] =>
                \A j \in 1..Len(tasks) : j # i => tasks'[j] = tasks[j]]_vars

(* C16, the part that holds: a step of one monitor leaves the others alone. *)
C16_MonitorsAreIsolated ==
    [][\A i, j \in 1..Len(tasks) :
          (tasks'[i] # tasks[i] /\ j # i) => tasks'[j] = tasks[j]]_vars

(* C17: whatever the interleaving of concurrent radio_info requests, no two *)
(* consecutive HistoryEntry rows of a station carry the same (artist, song). *)
C17_NoConsecutiveDuplicates ==
    variant = "app" =>
        \A u \in HttpUrls :
            \A k \in 1..(Len(HistoryOf(u)) - 1) :
                <<HistoryOf(u)[k].artist, HistoryOf(u)[k].song>>
                    # <<HistoryOf(u)[k + 1].artist, HistoryOf(u)[k + 1].song>>

(* C17, the part that holds: with one request at a time no two consecutive  *)
(* rows of a station carry the same pair (checked under SpecAppSeq).        *)
C17_NoConsecutiveDuplicatesSequential ==
    \A u \in HttpUrls :
        \A k \in 1..(Len(HistoryOf(u)) - 1) :
            HistoryOf(u)[k].artist # HistoryOf(u)[k + 1].artist
                \/ HistoryOf(u)[k].song # HistoryOf(u)[k + 1].song

(* C20: after any sequence of radio_info calls that do not overlap, any two *)
(* successive HistoryEntry rows of a station have played_at values more     *)
(* than MIN_HISTORY_INTERVAL seconds apart.                                 *)
C20_EntriesMoreThanIntervalApart ==
    \A u \in HttpUrls :
        \A k \in 1..(Len(HistoryOf(u)) - 1) :
            HistoryOf(u)[k + 1].played_at - HistoryOf(u)[k].played_at
                > MIN_HISTORY_INTERVAL

(* C18: a scan turn that does not find the StreamTitle marker ends the call *)
(* of get_mp3_stream_title ("no title this cycle"): no reader, of a monitor *)
(* or of a radio_info request, goes on to scan another window.              *)
C18_NoMarkerEndsTheCall ==
    [][/\ \A i \in 1..Len(tasks) :
            (tasks[i].pc = "scan" /\ tasks'[i] # tasks[i]) => tasks'[i].pc # "scan"
       /\ \A r \in ReqIds :
            (reqs[r].pc = "scan" /\ reqs'[r] # reqs[r]) => reqs'[r].pc # "scan"]_vars

(* C19: when a monitor observes a title whose (artist, song) differs from   *)
(* the pair last recorded for its station, exactly one HistoryEntry is      *)
(* appended for the station, also when the pair was recorded earlier        *)
(* (A, B, A gives three entries).                                           *)
C19_EveryTransitionIsRecorded ==
    [][\A i \in 1..Len(tasks) :
          \A buffer \in Programme(tasks[i].url) :
            (/\ variant = "old"
             /\ tasks[i].pc = "scan"
             /\ Contains(buffer, Needle)
             /\ LatestPair(tasks[i].url)
                   # {extract_artist_and_song_old(TitleOfWindow(buffer))}
             /\ MonitorBody(i, TitleOfWindow(buffer))) =>
                Len(HistoryOf(tasks[i].url)') = Len(HistoryOf(tasks[i].url)) + 1]_vars

====
